---- MODULE Spec2Model ----
(***************************************************************************)
(* A model of src/index.js: the catalog (listing) handler and the meta     *)
(* (detail) handler of the add-on, with the upstream gateway tmdb().       *)
(*                                                                         *)
(* A JavaScript string is a sequence of one-character strings, so that     *)
(* slice, split, startsWith, toLowerCase, Number() and template literals   *)
(* are computed character by character.  A JavaScript value is a record    *)
(* [t, n, s]: t is its type, n its number (or boolean as 1/0), s its       *)
(* characters (or the name of a built-in function).                        *)
(*                                                                         *)
(* Each handler is an async function: it is one action up to each await    *)
(* of tmdb(), and one action from the upstream reply to the next await or  *)
(* to its return.  Fields of the emitted records that no property below    *)
(* reads (poster, background, description, imdbRating, runtime, genres)    *)
(* are left out of the records.                                            *)
(***************************************************************************)
EXTENDS Integers, Sequences, FiniteSets, TLC

VARIABLES pc, req, calls, replies, movie, result, log

vars == <<pc, req, calls, replies, movie, result, log>>

(***************************************************************************)
(* Bounds of the model.                                                    *)
(***************************************************************************)
\* Longest "results" array of a list document the upstream returns.
MaxResults == 2
\* Longest "results" array of a videos document the upstream returns.
MaxVideos == 2

(***************************************************************************)
(* JavaScript values.                                                      *)
(***************************************************************************)
Undef == [t |-> "undefined", n |-> 0, s |-> <<>>]

Null == [t |-> "null", n |-> 0, s |-> <<>>]

NaN == [t |-> "NaN", n |-> 0, s |-> <<>>]

Num(k) == [t |-> "number", n |-> k, s |-> <<>>]

Str(chars) == [t |-> "string", n |-> 0, s |-> chars]

Bool(b) == [t |-> "boolean", n |-> IF b THEN 1 ELSE 0, s |-> <<>>]

\* A built-in function object, such as Object or Object.prototype.toString.
Fn(name) == [t |-> "function", n |-> 0, s |-> name]

\* A plain object, such as Object.prototype.
Obj == [t |-> "object", n |-> 0, s |-> <<>>]

\* ToBoolean: what `!v`, `v || d` and `v ? a : b` test.
Truthy(v) ==
    CASE v.t = "undefined" -> FALSE
      [] v.t = "null"      -> FALSE
      [] v.t = "NaN"       -> FALSE
      [] v.t = "number"    -> v.n # 0
      [] v.t = "boolean"   -> v.n = 1
      [] v.t = "string"    -> v.s # <<>>
      [] OTHER             -> TRUE

\* a || b
Or(a, b) == IF Truthy(a) THEN a ELSE b

DigitChars == <<"0","1","2","3","4","5","6","7","8","9">>

IsDigit(c) == \E i \in 1..10 : DigitChars[i] = c

DigitVal(c) == (CHOOSE i \in 1..10 : DigitChars[i] = c) - 1

AllDigits(chars) == \A i \in 1..Len(chars) : IsDigit(chars[i])

RECURSIVE DigitsToNat(_)
DigitsToNat(chars) ==
    IF chars = <<>> THEN 0
    ELSE 10 * DigitsToNat(SubSeq(chars, 1, Len(chars) - 1)) + DigitVal(chars[Len(chars)])

RECURSIVE NatToChars(_)
NatToChars(k) ==
    IF k < 10 THEN <<DigitChars[k + 1]>>
    ELSE NatToChars(k \div 10) \o <<DigitChars[(k % 10) + 1]>>

IntToChars(k) == IF k < 0 THEN <<"-">> \o NatToChars(-k) ELSE NatToChars(k)

RECURSIVE TrimLeft(_)
TrimLeft(chars) ==
    IF chars # <<>> /\ Head(chars) = " " THEN TrimLeft(Tail(chars)) ELSE chars

RECURSIVE TrimRight(_)
TrimRight(chars) ==
    IF chars # <<>> /\ chars[Len(chars)] = " "
    THEN TrimRight(SubSeq(chars, 1, Len(chars) - 1))
    ELSE chars

\* Number(string) for decimal integer literals: blanks are trimmed, the empty
\* string is 0, an optional sign is read, anything else is NaN.  (Fractions,
\* exponents and radix prefixes are not among the strings of this model.)
StringToNumber(chars) ==
    LET body == TrimRight(TrimLeft(chars)) IN
    IF body = <<>> THEN Num(0)
    ELSE IF AllDigits(body) THEN Num(DigitsToNat(body))
    ELSE IF Len(body) > 1 /\ Head(body) = "-" /\ AllDigits(Tail(body))
         THEN Num(0 - DigitsToNat(Tail(body)))
    ELSE IF Len(body) > 1 /\ Head(body) = "+" /\ AllDigits(Tail(body))
         THEN Num(DigitsToNat(Tail(body)))
    ELSE NaN

\* Number(v)
ToNumber(v) ==
    CASE v.t = "undefined" -> NaN
      [] v.t = "null"      -> Num(0)
      [] v.t = "number"    -> v
      [] v.t = "boolean"   -> Num(v.n)
      [] v.t = "string"    -> StringToNumber(v.s)
      [] OTHER             -> NaN

\* String(v), also what a template literal `${v}` gives.
ToChars(v) ==
    CASE v.t = "undefined" -> <<"u","n","d","e","f","i","n","e","d">>
      [] v.t = "null"      -> <<"n","u","l","l">>
      [] v.t = "NaN"       -> <<"N","a","N">>
      [] v.t = "number"    -> IntToChars(v.n)
      [] v.t = "boolean"   -> IF v.n = 1 THEN <<"t","r","u","e">> ELSE <<"f","a","l","s","e">>
      [] v.t = "string"    -> v.s
      [] v.t = "function"  -> <<"f","u","n","c","t","i","o","n"," ">> \o v.s \o <<"(",")"," ","{"," ","[","n","a","t","i","v","e"," ","c","o","d","e","]"," ","}">>
      [] OTHER             -> <<"[","o","b","j","e","c","t"," ","O","b","j","e","c","t","]">>

\* s.slice(0, 4)
Slice4(chars) == SubSeq(chars, 1, IF Len(chars) < 4 THEN Len(chars) ELSE 4)

\* s.startsWith(prefix)
StartsWith(chars, prefix) ==
    /\ Len(chars) >= Len(prefix)
    /\ SubSeq(chars, 1, Len(prefix)) = prefix

\* The characters of s before its first sep (all of s when it has none).
RECURSIVE UpTo(_, _)
UpTo(chars, sep) ==
    IF chars = <<>> \/ Head(chars) = sep THEN <<>>
    ELSE <<Head(chars)>> \o UpTo(Tail(chars), sep)

\* s.split(sep)[1] for a string that contains sep.
SplitSecond(chars, sep) ==
    LET first == UpTo(chars, sep) IN
    UpTo(SubSeq(chars, Len(first) + 2, Len(chars)), sep)

UpperChars == <<"A","B","C","D","E","F","G","H","I","J","K","L","M","N","O","P","Q","R","S","T","U","V","W","X","Y","Z">>

LowerChars == <<"a","b","c","d","e","f","g","h","i","j","k","l","m","n","o","p","q","r","s","t","u","v","w","x","y","z">>

ToLowerChar(c) ==
    IF \E i \in 1..26 : UpperChars[i] = c
    THEN LowerChars[CHOOSE i \in 1..26 : UpperChars[i] = c]
    ELSE c

\* s.toLowerCase()
ToLowerCase(chars) == [i \in 1..Len(chars) |-> ToLowerChar(chars[i])]

\* Math.floor(a / b) for integers a and b, b # 0.
FloorDiv(a, b) == IF b > 0 THEN a \div b ELSE (0 - a) \div (0 - b)

Min(a, b) == IF a < b THEN a ELSE b

(***************************************************************************)
(* Property lookup on an object literal: obj[key] finds the literal's own  *)
(* properties first and then those it inherits from Object.prototype.      *)
(***************************************************************************)
\* The names an object literal inherits, with the values a lookup returns
\* (read on a literal, "__proto__" is Object.prototype itself).
ObjectPrototype ==
    { <<<<"c","o","n","s","t","r","u","c","t","o","r">>, Fn(<<"O","b","j","e","c","t">>)>>,
      <<<<"_","_","p","r","o","t","o","_","_">>, Obj>>,
      <<<<"h","a","s","O","w","n","P","r","o","p","e","r","t","y">>, Fn(<<"h","a","s","O","w","n","P","r","o","p","e","r","t","y">>)>>,
      <<<<"i","s","P","r","o","t","o","t","y","p","e","O","f">>, Fn(<<"i","s","P","r","o","t","o","t","y","p","e","O","f">>)>>,
      <<<<"p","r","o","p","e","r","t","y","I","s","E","n","u","m","e","r","a","b","l","e">>, Fn(<<"p","r","o","p","e","r","t","y","I","s","E","n","u","m","e","r","a","b","l","e">>)>>,
      <<<<"t","o","L","o","c","a","l","e","S","t","r","i","n","g">>, Fn(<<"t","o","L","o","c","a","l","e","S","t","r","i","n","g">>)>>,
      <<<<"t","o","S","t","r","i","n","g">>, Fn(<<"t","o","S","t","r","i","n","g">>)>>,
      <<<<"v","a","l","u","e","O","f">>, Fn(<<"v","a","l","u","e","O","f">>)>>,
      <<<<"_","_","d","e","f","i","n","e","G","e","t","t","e","r","_","_">>, Fn(<<"_","_","d","e","f","i","n","e","G","e","t","t","e","r","_","_">>)>>,
      <<<<"_","_","d","e","f","i","n","e","S","e","t","t","e","r","_","_">>, Fn(<<"_","_","d","e","f","i","n","e","S","e","t","t","e","r","_","_">>)>>,
      <<<<"_","_","l","o","o","k","u","p","G","e","t","t","e","r","_","_">>, Fn(<<"_","_","l","o","o","k","u","p","G","e","t","t","e","r","_","_">>)>>,
      <<<<"_","_","l","o","o","k","u","p","S","e","t","t","e","r","_","_">>, Fn(<<"_","_","l","o","o","k","u","p","S","e","t","t","e","r","_","_">>)>> }

Keys(table) == { p[1] : p \in table }

ValueAt(table, key) == (CHOOSE p \in table : p[1] = key)[2]

\* literal[key], the literal given as a set of <<name, value>> pairs: its own
\* property, else the one inherited from Object.prototype, else undefined.
GetProperty(table, key) ==
    IF key \in Keys(table) THEN ValueAt(table, key)
    ELSE IF key \in Keys(ObjectPrototype) THEN ValueAt(ObjectPrototype, key)
    ELSE Undef

\* The property name a value is converted to when it indexes an object.
PropertyKey(v) == ToChars(v)
(***************************************************************************)
(* The program's tables and constants.                                     *)
(***************************************************************************)
\* process.env.TMDB_API_KEY
TMDB_API_KEY == Str(<<"k","e","y">>)

\* The catalogs of the manifest: each is a type and an id.
ManifestCatalogs == { <<"movie", <<"n","i","n","e","t","i","e","s">>>>, <<"movie", <<"t","w","o","_","t","h","o","u","s","a","n","d","s">>>> }

\* const ids = {...} of mapGenreToId
GenreIds ==
    { <<<<"a","c","t","i","o","n">>, Num(28)>>, <<<<"a","d","v","e","n","t","u","r","e">>, Num(12)>>, <<<<"a","n","i","m","a","t","i","o","n">>, Num(16)>>,
      <<<<"c","o","m","e","d","y">>, Num(35)>>, <<<<"c","r","i","m","e">>, Num(80)>>, <<<<"d","o","c","u","m","e","n","t","a","r","y">>, Num(99)>>,
      <<<<"d","r","a","m","a">>, Num(18)>>, <<<<"f","a","m","i","l","y">>, Num(10751)>>, <<<<"f","a","n","t","a","s","y">>, Num(14)>>,
      <<<<"h","i","s","t","o","r","y">>, Num(36)>>, <<<<"h","o","r","r","o","r">>, Num(27)>>, <<<<"m","u","s","i","c">>, Num(10402)>>,
      <<<<"m","y","s","t","e","r","y">>, Num(9648)>>, <<<<"r","o","m","a","n","c","e">>, Num(10749)>>,
      <<<<"s","c","i","e","n","c","e"," ","f","i","c","t","i","o","n">>, Num(878)>>, <<<<"t","h","r","i","l","l","e","r">>, Num(53)>>,
      <<<<"w","a","r">>, Num(10752)>>, <<<<"w","e","s","t","e","r","n">>, Num(37)>>, <<<<"t","v"," ","m","o","v","i","e">>, Num(10770)>> }

\* An object {gte, lte}: a JavaScript object with these two properties.
Range(gte, lte) == [t |-> "object", n |-> 0, s |-> <<>>, gte |-> Str(gte), lte |-> Str(lte)]

\* const ranges = {...} of the catalog handler
ranges ==
    { <<<<"n","i","n","e","t","i","e","s">>, Range(<<"1","9","9","0","-","0","1","-","0","1">>, <<"1","9","9","9","-","1","2","-","3","1">>)>>,
      <<<<"t","w","o","_","t","h","o","u","s","a","n","d","s">>, Range(<<"2","0","0","0","-","0","1","-","0","1">>, <<"2","0","1","0","-","1","2","-","3","1">>)>> }

\* const sortMap = {...} of the catalog handler
sortMap ==
    { <<<<"p","o","p","u","l","a","r","i","t","y">>, Str(<<"p","o","p","u","l","a","r","i","t","y",".","d","e","s","c">>)>>,
      <<<<"r","a","t","i","n","g">>, Str(<<"v","o","t","e","_","a","v","e","r","a","g","e",".","d","e","s","c">>)>>,
      <<<<"r","e","l","e","a","s","e">>, Str(<<"p","r","i","m","a","r","y","_","r","e","l","e","a","s","e","_","d","a","t","e",".","d","e","s","c">>)>> }

\* The limit used when extra.limit is missing, zero or not a number.
DefaultLimit == 50

\* The largest limit used.
MaxLimit == 100

\* o.gte and o.lte: undefined on an object that has no such property.
Gte(o) == IF "gte" \in DOMAIN o THEN o.gte ELSE Undef

Lte(o) == IF "lte" \in DOMAIN o THEN o.lte ELSE Undef

(***************************************************************************)
(* The inputs: requests of the caller and replies of the upstream.         *)
(***************************************************************************)
Extra(search, genre, sort, skip, limit) ==
    [search |-> search, genre |-> genre, sort |-> sort, skip |-> skip, limit |-> limit]

NoExtra == Extra(Undef, Undef, Undef, Undef, Undef)

Request(handler, type, id, extra) ==
    [handler |-> handler, type |-> type, id |-> id, extra |-> extra]

NoRequest == Request("none", "none", Undef, NoExtra)

Types == {"movie", "series"}

CatalogIds == {<<"n","i","n","e","t","i","e","s">>, <<"t","w","o","_","t","h","o","u","s","a","n","d","s">>, <<"e","i","g","h","t","i","e","s">>, <<"t","o","S","t","r","i","n","g">>}

Searches == {Undef, Str(<<"m","a","t","r","i","x">>)}

Genres == {Str(<<"h","o","r","r","o","r">>), Str(<<"H","o","r","r","o","r">>), Str(<<"n","o","i","r">>), Str(<<"c","o","n","s","t","r","u","c","t","o","r">>)}

Sorts == {Undef, Str(<<"r","a","t","i","n","g">>)}

Skips == {Undef, Str(<<"0">>), Str(<<"5","0">>), Str(<<"1","2","0">>), Str(<<"-","1">>)}

Limits == {Undef, Str(<<"0">>), Str(<<"4","0">>), Str(<<"5","0">>), Str(<<"2","0","0">>), Str(<<"a","l","l">>)}

\* The listing requests: every type, id and search, with either a cursor
\* (skip, limit) or filters (genre, sort).
CatalogRequests ==
    { Request("catalog", type, Str(id), Extra(search, Undef, Undef, skip, limit)) :
        type \in Types, id \in CatalogIds, search \in Searches,
        skip \in Skips, limit \in Limits }
    \cup
    { Request("catalog", type, Str(id), Extra(search, genre, sort, Undef, Undef)) :
        type \in Types, id \in CatalogIds, search \in Searches,
        genre \in Genres, sort \in Sorts }

\* A record of a list document: a JSON object, or the JSON value null.
Record(id, title, release_date) ==
    [isNull |-> FALSE, id |-> id, title |-> title, release_date |-> release_date]

NullRecord == [isNull |-> TRUE, id |-> Undef, title |-> Undef, release_date |-> Undef]

UpstreamRecords ==
    { Record(Num(1), Str(<<"M","i","s","e","r","y">>), Str(<<"1","9","8","9","-","1","2","-","3","1">>)),
      Record(Num(2), Str(<<"T","r","e","m","o","r","s">>), Str(<<"1","9","9","0","-","0","1","-","0","1">>)),
      Record(Num(3), Str(<<"M","a","g","n","o","l","i","a">>), Str(<<"1","9","9","9","-","1","2","-","3","1">>)),
      Record(Num(4), Undef, Str(<<"2","0","0","0","-","0","1","-","0","1">>)),
      Record(Num(5), Str(<<"T","a","n","g","l","e","d">>), Str(<<"2","0","1","0","-","1","2","-","3","1">>)),
      Record(Num(6), Str(<<"R","a","n","g","o">>), Str(<<"2","0","1","1","-","0","1","-","0","1">>)),
      Record(Num(7), Str(<<"A","l","p","h","a">>), Str(<<>>)),
      Record(Num(8), Str(<<"O","m","e","g","a">>), Str(<<"T","B","A">>)),
      NullRecord }

SeqsUpTo(S, k) == UNION { [1..m -> S] : m \in 0..k }

\* A JSON document of a list endpoint: null, or an object whose "results" is
\* missing, an array, or a value that is no array (a string, an object).
ListDoc(isNull, t, items) == [isNull |-> isNull, results |-> [t |-> t, items |-> items]]

ListDocs ==
    { ListDoc(TRUE, "undefined", <<>>), ListDoc(FALSE, "undefined", <<>>),
      ListDoc(FALSE, "other", <<>>) }
    \cup { ListDoc(FALSE, "array", items) : items \in SeqsUpTo(UpstreamRecords, MaxResults) }

\* What fetch() and res.json() can do: fetch rejects, the status is not 2xx,
\* the body is not JSON, or the body is a JSON document.
Reply(kind, json) == [kind |-> kind, json |-> json]

FailureKinds == {"network", "status", "badjson"}

ListReplies ==
    { Reply(kind, ListDoc(TRUE, "undefined", <<>>)) : kind \in FailureKinds }
    \cup { Reply("ok", doc) : doc \in ListDocs }

(***************************************************************************)
(* The upstream gateway.                                                   *)
(***************************************************************************)
\* tmdb(path, params) up to its fetch: the URL's path and its search
\* parameters, api_key first and then every entry of params that is not
\* undefined, null or "", converted by String().
TmdbCall(path, params) ==
    LET sent == { k \in Keys(params) :
                    LET v == ValueAt(params, k) IN
                    ~ (v.t = "undefined" \/ v.t = "null" \/ (v.t = "string" /\ v.s = <<>>)) }
    IN [path  |-> path,
        query |-> [k \in {"api_key"} \cup sent |->
                     IF k = "api_key" THEN Or(TMDB_API_KEY, Str(<<>>)).s
                     ELSE ToChars(ValueAt(params, k))]]

\* tmdb(path, params) from its fetch on: it throws unless the reply has a 2xx
\* status and a JSON body, which it returns.
TmdbResult(reply) == [threw |-> reply.kind # "ok", json |-> reply.json]

(***************************************************************************)
(* The catalog handler.                                                    *)
(***************************************************************************)
mapGenreToId(name) ==
    LET lower == IF name.t = "string" THEN Str(ToLowerCase(name.s)) ELSE Undef
    IN Or(GetProperty(GenreIds, PropertyKey(lower)), Undef)

limit(extra) == Min(Or(ToNumber(extra.limit), Num(DefaultLimit)).n, MaxLimit)

skip(extra) == Or(ToNumber(extra.skip), Num(0)).n

\* A fault of page: the upstream's pages counted from 0 (the "+ 1" left out).
pageZeroBased(extra) == FloorDiv(skip(extra), limit(extra))

page(extra) == FloorDiv(skip(extra), limit(extra)) + 1

genreId(extra) == IF Truthy(extra.genre) THEN mapGenreToId(extra.genre) ELSE Undef

\* const params = {...}, with with_genres added when genreId is truthy.
params(range, extra) ==
    { <<"include_adult", Bool(FALSE)>>,
      <<"language", Str(<<"e","n","-","U","S">>)>>,
      <<"sort_by", Or(GetProperty(sortMap, PropertyKey(extra.sort)), Str(<<"p","o","p","u","l","a","r","i","t","y",".","d","e","s","c">>))>>,
      <<"page", Num(page(extra))>>,
      <<"primary_release_date.gte", Gte(range)>>,
      <<"primary_release_date.lte", Lte(range)>>,
      <<"with_original_language", Undef>> }
    \cup IF Truthy(genreId(extra))
         THEN { <<"with_genres", Str(ToChars(genreId(extra)))>> }
         ELSE {}

searchParams(extra) ==
    { <<"query", extra.search>>,
      <<"page", Num(page(extra))>>,
      <<"include_adult", Bool(FALSE)>>,
      <<"language", Str(<<"e","n","-","U","S">>)>> }

Preview(id, name, releaseInfo) == [id |-> id, name |-> name, releaseInfo |-> releaseInfo]

\* (m.release_date || "").slice(0, 4) throws when m is null.
ReleaseYearThrows(m) == m.isNull

ReleaseYear(m) == Slice4(Or(m.release_date, Str(<<>>)).s)

\* A fault of toMetaPreview: the upstream's id emitted without the prefix.
toMetaPreviewBareId(m) == Preview(ToChars(m.id), m.title, ReleaseYear(m))

\* toMetaPreview(m) throws when m is null.
toMetaPreviewThrows(m) == m.isNull

toMetaPreview(m) ==
    Preview(<<"t","m","d","b",":">> \o ToChars(m.id), m.title, ReleaseYear(m))

\* The callback of results.filter in the search branch: whether it throws on
\* m (m is null, or range.gte is undefined when its slice is taken), and
\* whether it keeps m.
FilterThrows(range, m) ==
    \/ ReleaseYearThrows(m)
    \/ /\ Truthy(ToNumber(Str(ReleaseYear(m))))
       /\ (Gte(range).t # "string" \/ Lte(range).t # "string")

\* A fault of the filter: the year is compared with the window's first year
\* only.
FilterKeepsFromMinYear(range, m) ==
    LET y    == ToNumber(Str(ReleaseYear(m)))
        minY == ToNumber(Str(Slice4(Gte(range).s)))
    IN Truthy(y) /\ minY.t = "number" /\ y.n >= minY.n

FilterKeeps(range, m) ==
    LET y    == ToNumber(Str(ReleaseYear(m)))
        minY == ToNumber(Str(Slice4(Gte(range).s)))
        maxY == ToNumber(Str(Slice4(Lte(range).s)))
    IN /\ Truthy(y)
       /\ minY.t = "number" /\ maxY.t = "number"
       /\ y.n >= minY.n /\ y.n <= maxY.n

\* A handler's outcome: nothing yet, a listing, a detail, or an exception
\* that reaches the caller.
NoMeta == [id |-> Undef, name |-> Undef, releaseInfo |-> Undef, trailers |-> <<>>]

Outcome(kind, metas, meta) == [kind |-> kind, metas |-> metas, meta |-> meta]

NoResult == Outcome("none", <<>>, NoMeta)

Listing(metas) == Outcome("metas", metas, NoMeta)

Raised == Outcome("raised", <<>>, NoMeta)

\* The try block up to its await: it returns an empty listing, or calls
\* tmdb() once.
CatalogStart(r) ==
    LET range == GetProperty(ranges, PropertyKey(r.id)) IN
    IF r.type # "movie" THEN [returned |-> TRUE, calls |-> <<>>]
    ELSE IF ~ Truthy(range) THEN [returned |-> TRUE, calls |-> <<>>]
    ELSE IF Truthy(r.extra.search)
         THEN [returned |-> FALSE,
               calls |-> <<TmdbCall(<<"/","s","e","a","r","c","h","/","m","o","v","i","e">>, searchParams(r.extra))>>]
         ELSE [returned |-> FALSE,
               calls |-> <<TmdbCall(<<"/","d","i","s","c","o","v","e","r","/","m","o","v","i","e">>, params(range, r.extra))>>]

\* The try block from the await on: it throws, or it has the listing.
CatalogTry(r, reply) ==
    LET range   == GetProperty(ranges, PropertyKey(r.id))
        res     == TmdbResult(reply)
        json    == res.json
        \* json.results || []
        isArray == json.results.t = "array"
        fetched == IF isArray THEN json.results.items ELSE <<>>
        search  == Truthy(r.extra.search)
        results == IF search THEN SelectSeq(fetched, LAMBDA m : FilterKeeps(range, m))
                   ELSE fetched
        threw   == \/ res.threw
                   \/ json.isNull
                   \/ json.results.t = "other"
                   \/ search /\ \E i \in 1..Len(fetched) : FilterThrows(range, fetched[i])
                   \/ \E i \in 1..Len(results) : toMetaPreviewThrows(results[i])
    IN IF threw THEN [threw |-> TRUE, metas |-> <<>>]
       ELSE [threw |-> FALSE,
             metas |-> [i \in 1..Len(results) |-> toMetaPreview(results[i])]]

\* A fault of the catch block: the error is logged and thrown again.
CatalogCatchRethrows(attempt) ==
    IF attempt.threw THEN [result |-> Raised, logged |-> 1]
    ELSE [result |-> Listing(attempt.metas), logged |-> 0]

\* The catch block: an empty listing and one console.error line.
CatalogCatch(attempt) ==
    IF attempt.threw THEN [result |-> Listing(<<>>), logged |-> 1]
    ELSE [result |-> Listing(attempt.metas), logged |-> 0]

\* A fault of the handler: a failed call is made once more.
CatalogResumeRetries(r, cs, reply) ==
    LET attempt == CatalogTry(r, reply)
        end     == CatalogCatch(attempt)
    IN [result |-> end.result, logged |-> end.logged,
        calls |-> IF attempt.threw THEN Append(cs, cs[1]) ELSE cs]

\* The handler from the upstream's reply to its return.
CatalogResume(r, cs, reply) ==
    LET end == CatalogCatch(CatalogTry(r, reply)) IN
    [result |-> end.result, logged |-> end.logged, calls |-> cs]

(***************************************************************************)
(* The meta handler.                                                       *)
(***************************************************************************)
MetaIds == {Str(<<"t","m","d","b",":","6","0","3">>), Str(<<"6","0","3">>), Str(<<"t","t","0","1","3","3","0","9","3">>), Str(<<"t","m","d","b",":">>), Undef}

MetaRequests == { Request("meta", "movie", id, NoExtra) : id \in MetaIds }

\* No movie fetched yet.
NoMovie == Record(Undef, Undef, Undef)

\* The JSON documents of /movie/{id}: an object, or null.
MovieDocs ==
    { Record(Num(603), Str(<<"T","h","e"," ","M","a","t","r","i","x">>), Str(<<"1","9","9","9","-","0","3","-","3","1">>)),
      Record(Num(604), Undef, Str(<<"2","0","0","3","-","0","5","-","1","5">>)),
      Record(Num(605), Str(<<"U","n","t","i","m","e","d">>), Undef),
      NullRecord }

MovieReplies ==
    { Reply(kind, NullRecord) : kind \in FailureKinds }
    \cup { Reply("ok", doc) : doc \in MovieDocs }

\* An entry of the videos document: a JSON object, or null.
Video(type, site, key, name) ==
    [isNull |-> FALSE, type |-> type, site |-> site, key |-> key, name |-> name]

NullVideo == [isNull |-> TRUE, type |-> "", site |-> "", key |-> <<>>, name |-> <<>>]

UpstreamVideos ==
    { Video("Trailer", "YouTube", <<"a","1">>, <<"O","f","f","i","c","i","a","l"," ","T","r","a","i","l","e","r">>),
      Video("Trailer", "YouTube", <<"b","2">>, <<"T","r","a","i","l","e","r"," ","2">>),
      Video("Teaser", "YouTube", <<"c","3">>, <<"T","e","a","s","e","r">>),
      Video("Trailer", "Vimeo", <<"d","4">>, <<"T","r","a","i","l","e","r">>),
      NullVideo }

VideoDocs ==
    { ListDoc(TRUE, "undefined", <<>>), ListDoc(FALSE, "undefined", <<>>),
      ListDoc(FALSE, "other", <<>>) }
    \cup { ListDoc(FALSE, "array", items) : items \in SeqsUpTo(UpstreamVideos, MaxVideos) }

VideoReplies ==
    { Reply(kind, ListDoc(TRUE, "undefined", <<>>)) : kind \in FailureKinds }
    \cup { Reply("ok", doc) : doc \in VideoDocs }

Detail(id, name, releaseInfo, trailers) ==
    [id |-> id, name |-> name, releaseInfo |-> releaseInfo, trailers |-> trailers]

\* const tmdbId = id.startsWith("tmdb:") ? id.split(":")[1] : id
tmdbId(id) == IF StartsWith(id.s, <<"t","m","d","b",":">>) THEN SplitSecond(id.s, ":") ELSE id.s

\* A fault of the catch block: the id is rebuilt with the prefix instead of
\* being returned as the caller gave it.
MetaCatchPrefixed(r) ==
    [result |-> Outcome("meta", <<>>,
                        Detail(Str(<<"t","m","d","b",":">> \o tmdbId(r.id)), Str(<<"U","n","a","v","a","i","l","a","b","l","e">>), Undef, <<>>)),
     logged |-> 1]

\* The catch block: the caller's id, the name "Unavailable", one
\* console.error line.
MetaCatch(r) ==
    [result |-> Outcome("meta", <<>>, Detail(r.id, Str(<<"U","n","a","v","a","i","l","a","b","l","e">>), Undef, <<>>)),
     logged |-> 1]

\* The try block up to its first await: id.startsWith throws when id is no
\* string; otherwise tmdb() is called for the movie.
MetaStart(r) ==
    IF r.id.t # "string" THEN [threw |-> TRUE, calls |-> <<>>]
    ELSE [threw |-> FALSE,
          calls |-> <<TmdbCall(<<"/","m","o","v","i","e","/">> \o tmdbId(r.id), {<<"language", Str(<<"e","n","-","U","S">>)>>})>>]

\* The try block from the movie's reply to its second await: tmdb() throws, or
\* tmdb() is called for the videos.
MetaMovie(r, cs, reply) ==
    LET res == TmdbResult(reply) IN
    IF res.threw THEN [threw |-> TRUE, movie |-> NoMovie, calls |-> cs]
    ELSE [threw |-> FALSE,
          movie |-> res.json,
          calls |-> Append(cs, TmdbCall(<<"/","m","o","v","i","e","/">> \o tmdbId(r.id) \o <<"/","v","i","d","e","o","s">>,
                                        {<<"language", Str(<<"e","n","-","U","S">>)>>}))]

\* A fault of the videos call: its failure is not caught.
videosUncaught(reply) ==
    LET res == TmdbResult(reply) IN
    IF res.threw THEN ListDoc(TRUE, "undefined", <<>>) ELSE res.json

\* await tmdb(videos).catch(() => ({ results: [] }))
videos(reply) ==
    LET res == TmdbResult(reply) IN
    IF res.threw THEN ListDoc(FALSE, "array", <<>>) ELSE res.json

\* (videos.results || []).find(v => v.type === "Trailer" && v.site === "YouTube"):
\* the index of the first match, 0 when there is none; it throws on a null
\* entry it reaches.
IsTrailer(v) == ~ v.isNull /\ v.type = "Trailer" /\ v.site = "YouTube"

FindTrailer(items) ==
    IF \E i \in 1..Len(items) : IsTrailer(items[i])
    THEN CHOOSE i \in 1..Len(items) :
             IsTrailer(items[i]) /\ \A j \in 1..(i - 1) : ~ IsTrailer(items[j])
    ELSE 0

FindThrows(items) ==
    LET stop == IF FindTrailer(items) = 0 THEN Len(items) ELSE FindTrailer(items)
    IN \E j \in 1..stop : items[j].isNull

\* The try block from the videos' reply on: it throws, or it has the meta.
MetaTry(mv, reply) ==
    LET doc     == videos(reply)
        items   == IF doc.results.t = "array" THEN doc.results.items ELSE <<>>
        found   == FindTrailer(items)
        trailer == items[found]
        threw   == \/ doc.isNull
                   \/ doc.results.t = "other"
                   \/ FindThrows(items)
                   \/ mv.isNull
    IN IF threw THEN [threw |-> TRUE, meta |-> NoMeta]
       ELSE [threw |-> FALSE,
             meta |-> Detail(Str(<<"t","m","d","b",":">> \o ToChars(mv.id)),
                             mv.title,
                             Str(ReleaseYear(mv)),
                             IF found = 0 THEN <<>>
                             ELSE << [source |-> trailer.key, type |-> "Trailer",
                                      name |-> trailer.name, site |-> "YouTube"] >>)]

\* The handler from the videos' reply to its return.
MetaFinish(r, mv, reply) ==
    LET attempt == MetaTry(mv, reply) IN
    IF attempt.threw THEN MetaCatch(r)
    ELSE [result |-> Outcome("meta", <<>>, attempt.meta), logged |-> 0]

(***************************************************************************)
(* The state machine.                                                      *)
(***************************************************************************)
Init ==
    /\ pc = "idle"
    /\ req = NoRequest
    /\ calls = <<>>
    /\ replies = <<>>
    /\ movie = NoMovie
    /\ result = NoResult
    /\ log = 0

\* The caller requests a listing: the catalog handler runs to its first
\* await, or to its return.
CatalogRequest ==
    /\ pc = "idle"
    /\ \E r \in CatalogRequests :
          LET start == CatalogStart(r) IN
          /\ req' = r
          /\ calls' = start.calls
          /\ pc' = IF start.returned THEN "done" ELSE "catalog_await"
          /\ result' = IF start.returned THEN Listing(<<>>) ELSE NoResult
    /\ UNCHANGED <<replies, movie, log>>

\* The upstream replies to the listing's call: the handler runs to its return.
CatalogReply ==
    /\ pc = "catalog_await"
    /\ \E reply \in ListReplies :
          LET end == CatalogResume(req, calls, reply) IN
          /\ replies' = Append(replies, reply)
          /\ result' = end.result
          /\ log' = log + end.logged
          /\ calls' = end.calls
    /\ pc' = "done"
    /\ UNCHANGED <<req, movie>>

\* The caller requests a detail: the meta handler runs to its first await, or
\* to its return.
MetaRequest ==
    /\ pc = "idle"
    /\ \E r \in MetaRequests :
          LET start == MetaStart(r) IN
          /\ req' = r
          /\ calls' = start.calls
          /\ pc' = IF start.threw THEN "done" ELSE "meta_await_movie"
          /\ result' = IF start.threw THEN MetaCatch(r).result ELSE NoResult
          /\ log' = IF start.threw THEN log + MetaCatch(r).logged ELSE log
    /\ UNCHANGED <<replies, movie>>

\* The upstream replies to the movie's call: the handler runs to its second
\* await, or to its return.
MetaMovieReply ==
    /\ pc = "meta_await_movie"
    /\ \E reply \in MovieReplies :
          LET step == MetaMovie(req, calls, reply) IN
          /\ replies' = Append(replies, reply)
          /\ calls' = step.calls
          /\ movie' = step.movie
          /\ pc' = IF step.threw THEN "done" ELSE "meta_await_videos"
          /\ result' = IF step.threw THEN MetaCatch(req).result ELSE NoResult
          /\ log' = IF step.threw THEN log + MetaCatch(req).logged ELSE log
    /\ UNCHANGED req

\* The upstream replies to the videos' call: the handler runs to its return.
MetaVideosReply ==
    /\ pc = "meta_await_videos"
    /\ \E reply \in VideoReplies :
          LET end == MetaFinish(req, movie, reply) IN
          /\ replies' = Append(replies, reply)
          /\ result' = end.result
          /\ log' = log + end.logged
    /\ pc' = "done"
    /\ UNCHANGED <<req, calls, movie>>

\* The caller has its answer; the next request starts from a fresh state.
Return ==
    /\ pc = "done"
    /\ pc' = "idle"
    /\ req' = NoRequest
    /\ calls' = <<>>
    /\ replies' = <<>>
    /\ movie' = NoMovie
    /\ result' = NoResult
    /\ log' = 0

Next ==
    \/ CatalogRequest
    \/ CatalogReply
    \/ MetaRequest
    \/ MetaMovieReply
    \/ MetaVideosReply
    \/ Return

Spec == Init /\ [][Next]_vars

(***************************************************************************)
(* Vocabulary of the properties.                                           *)
(***************************************************************************)
\* The request is on a catalog of the manifest.
KnownCatalog(r) == r.id.t = "string" /\ <<r.type, r.id.s>> \in ManifestCatalogs

\* The upstream call failed: no 2xx reply with a JSON body.
CallFailed(reply) == reply.kind \in FailureKinds

\* The reply to a list call is a failure or a malformed document.
ListFailed(reply) ==
    CallFailed(reply) \/ reply.json.isNull \/ reply.json.results.t = "other"

HasPrefix(chars) == Len(chars) >= 5 /\ SubSeq(chars, 1, 5) = <<"t","m","d","b",":">>

\* The record has a release date that starts with a four-digit year.
HasYear(m) ==
    /\ ~ m.isNull
    /\ m.release_date.t = "string"
    /\ Len(m.release_date.s) >= 4
    /\ AllDigits(SubSeq(m.release_date.s, 1, 4))

\* The years of a catalog of the manifest.
Window(id) == IF id = <<"n","i","n","e","t","i","e","s">> THEN 1990..1999 ELSE 2000..2010

IsTitle(v) == v.t = "string" /\ v.s # <<>>

(***************************************************************************)
(* C1.  The catalog handler never raises to its caller: whatever the       *)
(* request and whatever the upstream does (non-2xx status, network         *)
(* failure, malformed response) it completes with a listing, and when the  *)
(* upstream call fails the listing is empty.                               *)
(***************************************************************************)
C1_CatalogNeverRaises ==
    req.handler = "catalog" =>
        /\ result.kind # "raised"
        /\ pc = "done" => result.kind = "metas"
        /\ (pc = "done" /\ replies # <<>> /\ ListFailed(replies[1])) =>
               result = Listing(<<>>)

C1_Witness ==
    /\ pc = "done" /\ req.handler = "catalog" /\ KnownCatalog(req)
    /\ replies # <<>> /\ replies[1].kind = "status"
    /\ result = Listing(<<>>) /\ log = 1

(***************************************************************************)
(* C2.  The meta handler never raises: for every identifier, when the      *)
(* fetch of the item fails it returns a record whose id is the identifier  *)
(* exactly as the caller gave it and whose name is "Unavailable".          *)
(***************************************************************************)
C2_MetaDegradesOnFailure ==
    req.handler = "meta" =>
        /\ result.kind # "raised"
        /\ pc = "done" => result.kind = "meta"
        /\ (pc = "done" /\ replies # <<>> /\ CallFailed(replies[1])) =>
               /\ result.meta.id = req.id
               /\ result.meta.name = Str(<<"U","n","a","v","a","i","l","a","b","l","e">>)

C2_Witness ==
    /\ pc = "done" /\ req.handler = "meta" /\ req.id = Str(<<"6","0","3">>)
    /\ Len(replies) = 1 /\ replies[1].kind = "network"
    /\ result.meta.id = Str(<<"6","0","3">>) /\ result.meta.name = Str(<<"U","n","a","v","a","i","l","a","b","l","e">>)

(***************************************************************************)
(* C3.  In the meta handler, when the fetch of the item succeeds (it       *)
(* returns the item's record) and the fetch of its videos fails, the       *)
(* handler returns the normal record built from the item's record, with no *)
(* trailer, and not the "Unavailable" placeholder.                         *)
(***************************************************************************)
C3_VideosFailureIsNoTrailer ==
    ( /\ pc = "done" /\ req.handler = "meta" /\ Len(replies) = 2
      /\ replies[1].kind = "ok" /\ ~ replies[1].json.isNull
      /\ CallFailed(replies[2]) ) =>
        /\ result.kind = "meta"
        /\ result.meta.id = Str(<<"t","m","d","b",":">> \o IntToChars(replies[1].json.id.n))
        /\ result.meta.name = replies[1].json.title
        /\ result.meta.name # Str(<<"U","n","a","v","a","i","l","a","b","l","e">>)
        /\ result.meta.trailers = <<>>
        /\ log = 0

C3_Witness ==
    /\ pc = "done" /\ req.handler = "meta" /\ Len(replies) = 2
    /\ replies[1].kind = "ok" /\ replies[2].kind = "status"
    /\ result.meta = Detail(Str(<<"t","m","d","b",":","6","0","3">>), Str(<<"T","h","e"," ","M","a","t","r","i","x">>), Str(<<"1","9","9","9">>), <<>>)

(***************************************************************************)
(* C4.  The page sent upstream is floor(skip / L) + 1.  As claimed, L is   *)
(* the supplied limit capped at 100, and 50 when the limit is absent       *)
(* (C4_AsClaimed); as amended, L is also 50 when the supplied limit is     *)
(* zero or not a number (C4_PageIsExact).  skip=0,limit=50 gives page 1,   *)
(* skip=50,limit=50 page 2 and skip=120,limit=40 page 4.                   *)
(***************************************************************************)
SuppliedSkip(extra) ==
    IF ToNumber(extra.skip).t = "number" THEN ToNumber(extra.skip).n ELSE 0

ClaimedL(extra) ==
    IF extra.limit = Undef THEN 50
    ELSE IF ToNumber(extra.limit).t = "number" THEN Min(ToNumber(extra.limit).n, 100)
    ELSE 0

AmendedL(extra) == IF ClaimedL(extra) = 0 THEN 50 ELSE ClaimedL(extra)

PageSent == calls[1].query["page"]

C4_AsClaimed ==
    (req.handler = "catalog" /\ KnownCatalog(req) /\ calls # <<>>) =>
        /\ ClaimedL(req.extra) # 0
        /\ PageSent = IntToChars(FloorDiv(SuppliedSkip(req.extra), ClaimedL(req.extra)) + 1)

C4_PageIsExact ==
    (req.handler = "catalog" /\ calls # <<>>) =>
        /\ PageSent = IntToChars(FloorDiv(SuppliedSkip(req.extra), AmendedL(req.extra)) + 1)
        /\ (req.extra.skip = Str(<<"0">>) /\ req.extra.limit = Str(<<"5","0">>)) => PageSent = <<"1">>
        /\ (req.extra.skip = Str(<<"5","0">>) /\ req.extra.limit = Str(<<"5","0">>)) => PageSent = <<"2">>
        /\ (req.extra.skip = Str(<<"1","2","0">>) /\ req.extra.limit = Str(<<"4","0">>)) => PageSent = <<"4">>

C4_Witness ==
    /\ req.handler = "catalog" /\ KnownCatalog(req) /\ calls # <<>>
    /\ req.extra.skip = Str(<<"1","2","0">>) /\ req.extra.limit = Str(<<"0">>)
    /\ PageSent = <<"3">>

(***************************************************************************)
(* C5.  For a listing produced with a search string on a known catalog,    *)
(* every returned item's release year lies in the catalog's window         *)
(* (1990..1999 for nineties, 2000..2010 for two_thousands), and an         *)
(* upstream record without a parseable release year is not in the result.  *)
(***************************************************************************)
C5_SearchStaysInWindow ==
    ( /\ pc = "done" /\ req.handler = "catalog" /\ KnownCatalog(req)
      /\ Truthy(req.extra.search) /\ result.kind = "metas" ) =>
        /\ \A i \in 1..Len(result.metas) :
              /\ Len(result.metas[i].releaseInfo) = 4
              /\ AllDigits(result.metas[i].releaseInfo)
              /\ DigitsToNat(result.metas[i].releaseInfo) \in Window(req.id.s)
        /\ \A j \in 1..Len(replies[1].json.results.items) :
              LET m == replies[1].json.results.items[j] IN
              (~ m.isNull /\ ~ HasYear(m)) =>
                  \A i \in 1..Len(result.metas) :
                      result.metas[i].id # <<"t","m","d","b",":">> \o IntToChars(m.id.n)

C5_Witness ==
    /\ pc = "done" /\ req.handler = "catalog" /\ req.id = Str(<<"t","w","o","_","t","h","o","u","s","a","n","d","s">>)
    /\ Truthy(req.extra.search)
    /\ Len(replies) = 1 /\ replies[1].kind = "ok"
    /\ Len(replies[1].json.results.items) = 2
    /\ \E j \in 1..2 : ~ HasYear(replies[1].json.results.items[j])
    /\ Len(result.metas) = 1 /\ result.metas[1].releaseInfo = <<"2","0","1","0">>

(***************************************************************************)
(* C6.  As claimed (C6_AsClaimed): every identifier either handler emits,  *)
(* the degraded detail record's included, carries the prefix "tmdb:".  As  *)
(* amended (C6_EmittedIdsPrefixed): every identifier of a listing and of a *)
(* normal detail record carries the prefix; the degraded detail record     *)
(* carries the caller's identifier unchanged, prefixed or not.  (The claim  *)
(* is stated for requests whose identifier is a string.)                   *)
(***************************************************************************)
C6_AsClaimed ==
    (pc = "done" /\ req.id.t = "string") =>
        /\ \A i \in 1..Len(result.metas) : HasPrefix(result.metas[i].id)
        /\ result.kind = "meta" =>
              result.meta.id.t = "string" /\ HasPrefix(result.meta.id.s)

C6_EmittedIdsPrefixed ==
    pc = "done" =>
        /\ \A i \in 1..Len(result.metas) : HasPrefix(result.metas[i].id)
        /\ (result.kind = "meta" /\ log = 0) =>
              result.meta.id.t = "string" /\ HasPrefix(result.meta.id.s)
        /\ (result.kind = "meta" /\ log > 0) => result.meta.id = req.id

C6_Witness ==
    /\ pc = "done" /\ result.kind = "meta" /\ log = 1
    /\ req.id = Str(<<"6","0","3">>) /\ result.meta.id = Str(<<"6","0","3">>)

(***************************************************************************)
(* C7.  A preview or a detail is emitted only for an upstream record that  *)
(* has a title: no record without a title is in a returned listing or is   *)
(* a returned (normal) detail.  (Stated for listings of the known          *)
(* catalogs and for details.)                                              *)
(***************************************************************************)
C7_OnlyTitledRecords ==
    (pc = "done" /\ (req.handler = "catalog" => KnownCatalog(req))) =>
        /\ \A i \in 1..Len(result.metas) : IsTitle(result.metas[i].name)
        /\ (result.kind = "meta" /\ log = 0) => IsTitle(result.meta.name)

(***************************************************************************)
(* C8.  For a genre label on a listing request without a search string: a  *)
(* label of the lookup table, in any letter case, is sent upstream as the  *)
(* table's number; for any other label no genre filter is sent, and the    *)
(* request still goes to the discovery endpoint.                           *)
(***************************************************************************)
C8_GenreMappedOrOmitted ==
    ( /\ pc # "idle" /\ req.handler = "catalog" /\ KnownCatalog(req)
      /\ ~ Truthy(req.extra.search) /\ req.extra.genre.t = "string" ) =>
        /\ Len(calls) = 1
        /\ calls[1].path = <<"/","d","i","s","c","o","v","e","r","/","m","o","v","i","e">>
        /\ LET label == ToLowerCase(req.extra.genre.s)
               query == calls[1].query
           IN IF label \in Keys(GenreIds)
              THEN /\ "with_genres" \in DOMAIN query
                   /\ query["with_genres"] = IntToChars(ValueAt(GenreIds, label).n)
              ELSE "with_genres" \notin DOMAIN query

(***************************************************************************)
(* C9.  A listing request whose catalog is not one of the known catalogs   *)
(* returns an empty listing, whatever its other fields are.                *)
(***************************************************************************)
C9_UnknownCatalogIsEmpty ==
    (pc = "done" /\ req.handler = "catalog" /\ ~ KnownCatalog(req)) =>
        result = Listing(<<>>)

(***************************************************************************)
(* C10.  A listing request on a known catalog issues exactly one upstream  *)
(* call, to the search endpoint when it has a search string and to the     *)
(* discovery endpoint otherwise; the call is never retried: after it has   *)
(* failed, and the handler has returned, it is still the only call.        *)
(***************************************************************************)
C10_OneCallNoRetry ==
    (pc # "idle" /\ req.handler = "catalog" /\ KnownCatalog(req)) =>
        /\ Len(calls) = 1
        /\ calls[1].path = IF Truthy(req.extra.search) THEN <<"/","s","e","a","r","c","h","/","m","o","v","i","e">>
                           ELSE <<"/","d","i","s","c","o","v","e","r","/","m","o","v","i","e">>

C10_Witness ==
    /\ pc = "done" /\ req.handler = "catalog" /\ KnownCatalog(req)
    /\ replies # <<>> /\ CallFailed(replies[1])
    /\ Len(calls) = 1
====
